---- MODULE Spec2Model ----
(***************************************************************************)
(* A model of the dice roller Domo929/roll.                                *)
(*                                                                         *)
(* The repository holds two programs.  Package rolls (src/pkg/rolls,       *)
(* src/norm.go, src/main.go) parses a chain of signed terms ("3d6+2d8-5")  *)
(* and sums the draws; package roll (src/roll.go, src/cmd/roll) parses a   *)
(* single dice group with a drop/keep suffix ("4d6dl1+2") into a Dice      *)
(* struct and rolls it.                                                    *)
(*                                                                         *)
(* A Go string is a sequence of one-character strings.  A Go error is a    *)
(* string holding the start of its message, and the nil error is NoErr.    *)
(* The random source is modelled by the number of draws taken from it:     *)
(* its state is a function of its seed and of that number.                 *)
(***************************************************************************)
EXTENDS Integers, Sequences, FiniteSets, TLC

VARIABLES
    cmd,    \* the function or program entry point being run
    pc,     \* "start" before the call, "loop" inside handleRolls, then "done" or "exit"
    args,   \* the string arguments (a one-element list for a function of one string)
    dice,   \* the Dice struct (or the mod/count) the call receives
    rolls,  \* the rolls handed to applyRollModifier, or drawn by Dice.Roll
    ret,    \* what the call returned
    rng,    \* number of draws taken from the random source so far
    out     \* what the program reported, in order

vars == <<cmd, pc, args, dice, rolls, ret, rng, out>>

---------------------------------------------------------------------------
(* Bounds of the model *)

\* longest enumerated input string of the chained-term grammar
MaxLen == 4
\* most dice of one Dice struct, and most dice of one term that is rolled
MaxDice == 3
\* most sides of a die that is rolled
MaxSides == 3
\* largest magnitude of an enumerated flat modifier of a Dice struct
MaxMod == 1

---------------------------------------------------------------------------
(* Strings *)

NoErr == "nil"

Signs == {"+", "-"}

Digits == {"0", "1", "2", "3", "4", "5", "6", "7", "8", "9"}

DigitVal(c) ==
    CASE c = "0" -> 0 [] c = "1" -> 1 [] c = "2" -> 2 [] c = "3" -> 3
      [] c = "4" -> 4 [] c = "5" -> 5 [] c = "6" -> 6 [] c = "7" -> 7
      [] c = "8" -> 8 [] c = "9" -> 9

Min(S) == CHOOSE x \in S : \A y \in S : x <= y

\* s[i:] of Go, i counted from 0
From(s, i) == SubSeq(s, i + 1, Len(s))

\* s[:i] of Go, i counted from 0
Upto(s, i) == SubSeq(s, 1, i)

RECURSIVE DecimalValue(_)
DecimalValue(s) ==
    IF s = <<>> THEN 0
    ELSE 10 * DecimalValue(Upto(s, Len(s) - 1)) + DigitVal(s[Len(s)])

AllDigits(s) == \A i \in 1..Len(s) : s[i] \in Digits

\* strconv.Atoi, and strconv.ParseInt(s, 10, 64): an optional sign and then one
\* or more decimal digits.  The range error needs 19 digits or more, longer
\* than any string of this model.
Atoi(s) ==
    LET signed == Len(s) > 0 /\ s[1] \in Signs
        body == IF signed THEN From(s, 1) ELSE s
    IN  IF body = <<>> \/ ~AllDigits(body)
        THEN [err |-> "invalid syntax", val |-> 0]
        ELSE [err |-> NoErr,
              val |-> IF signed /\ s[1] = "-" THEN 0 - DecimalValue(body)
                      ELSE DecimalValue(body)]

RECURSIVE Join(_)
\* strings.Join(args, "")
Join(list) ==
    IF list = <<>> THEN <<>> ELSE Head(list) \o Join(Tail(list))

RECURSIVE SplitOn(_, _)
\* strings.Split(s, sep) for a one-character sep
SplitOn(s, sep) ==
    LET hits == {i \in 1..Len(s) : s[i] = sep}
    IN  IF hits = {} THEN <<s>>
        ELSE <<Upto(s, Min(hits) - 1)>> \o SplitOn(From(s, Min(hits)), sep)

---------------------------------------------------------------------------
(* Package rolls: the chained-term grammar *)

AddOperation == "+"
SubtractOperation == "-"

\* the zero value of RollInfo
ZeroRollInfo == [Operation |-> "", Number |-> 0, Sides |-> 0, Flat |-> 0]

getNextDieStr_DropsSign(str) ==
    LET start == IF Len(str) > 0 /\ str[1] \in Signs THEN 1 ELSE 0
        hits == {i \in start..(Len(str) - 1) : str[i + 1] \in Signs}
    IN  IF hits = {} THEN <<str, <<>>>>
        ELSE <<Upto(str, Min(hits)), From(str, Min(hits) + 1)>>

getNextDieStr(str) ==
    LET start == IF Len(str) > 0 /\ str[1] \in Signs THEN 1 ELSE 0
        hits == {i \in start..(Len(str) - 1) : str[i + 1] \in Signs}
    IN  IF hits = {} THEN <<str, <<>>>>
        ELSE <<Upto(str, Min(hits)), From(str, Min(hits))>>

RECURSIVE split(_)
split(str) ==
    LET next == getNextDieStr(str)
    IN  IF next[2] = <<>> THEN <<next[1]>>
        ELSE <<next[1]>> \o split(next[2])

operationOf_AlwaysAdd(str) == AddOperation

\* the switch on str[0] of toRollInfo: the term's operation
operationOf(str) ==
    IF str[1] = "-" THEN SubtractOperation ELSE AddOperation

checkDice_NoZeroCheck(number, sides) ==
    IF number < 0 THEN "number of dice cannot be negative"
    ELSE IF sides < 0 THEN "dice must have at least 1 side"
    ELSE NoErr

\* the range checks of toRollInfo on a dice term
checkDice(number, sides) ==
    IF number < 0 THEN "number of dice cannot be negative"
    ELSE IF number = 0 THEN "number of dice must be at least 1"
    ELSE IF sides <= 0 THEN "dice must have at least 1 side"
    ELSE NoErr

toRollInfo(str) ==
    IF str = <<>> THEN [err |-> "empty dice specification", ri |-> ZeroRollInfo]
    ELSE
    LET op == operationOf(str)
        offset == IF str[1] \in Signs THEN 1 ELSE 0
        parts == SplitOn(From(str, offset), "d")
        fail(msg) == [err |-> msg, ri |-> ZeroRollInfo]
    IN  IF offset >= Len(str) THEN fail("invalid dice specification")
        ELSE IF Len(parts) = 1 THEN
            LET flat == Atoi(parts[1])
            IN  IF flat.err # NoErr THEN fail("invalid flat modifier")
                ELSE [err |-> NoErr,
                      ri |-> [Operation |-> op, Number |-> 0, Sides |-> 0,
                              Flat |-> flat.val]]
        ELSE IF Len(parts) = 2 THEN
            LET number == Atoi(parts[1])
                sides == Atoi(parts[2])
            IN  IF number.err # NoErr THEN fail("invalid number of dice")
                ELSE IF sides.err # NoErr THEN fail("invalid number of sides")
                ELSE IF checkDice(number.val, sides.val) # NoErr
                     THEN fail(checkDice(number.val, sides.val))
                ELSE [err |-> NoErr,
                      ri |-> [Operation |-> op, Number |-> number.val,
                              Sides |-> sides.val, Flat |-> 0]]
        ELSE fail("invalid dice specification")

RECURSIVE parseParts(_, _)
\* the loop of parseOperators over the parts, rollInfos being the terms so far
parseParts(parts, rollInfos) ==
    IF parts = <<>> THEN [err |-> NoErr, rollInfos |-> rollInfos]
    ELSE LET r == toRollInfo(Head(parts))
         IN  IF r.err # NoErr THEN [err |-> r.err, rollInfos |-> <<>>]
             ELSE parseParts(Tail(parts), Append(rollInfos, r.ri))

parseOperators(list) == parseParts(split(Join(list)), <<>>)

RECURSIVE NatToStr(_)
NatToStr(n) ==
    IF n < 10 THEN <<CHOOSE c \in Digits : DigitVal(c) = n>>
    ELSE NatToStr(n \div 10) \o <<CHOOSE c \in Digits : DigitVal(c) = n % 10>>

\* the %d verb of fmt
Itoa(n) == IF n < 0 THEN <<"-">> \o NatToStr(0 - n) ELSE NatToStr(n)

\* how normGen and RollInfo.String tell a flat term from a dice term
isFlat(ri) == ri.Flat # 0

RollInfoString(ri) ==
    IF isFlat(ri) THEN <<ri.Operation>> \o Itoa(ri.Flat)
    ELSE <<ri.Operation>> \o Itoa(ri.Number) \o <<"d">> \o Itoa(ri.Sides)

---------------------------------------------------------------------------
(* Inputs *)

\* the characters of the enumerated strings of the chained-term grammar
TermChars == {"+", "-", "d", "0", "1", "2"}

StringsOver(chars, n) == UNION {[1..k -> chars] : k \in 0..n}

\* the strings the tests of package rolls and the spec's scenarios use
TermScenarios ==
    { <<"1", "d", "6">>, <<"2", "d", "6">>, <<"2", "d", "0">>, <<"0", "d", "6">>,
      <<"2", "d", "-", "6">>, <<"+">>, <<"-">>, <<>>,
      <<"2", "d", "6", "+", "3">>, <<"2", "d", "6", "-", "3">>,
      <<"3", "d", "6", "+", "2", "d", "8", "-", "5">>,
      <<"3", "d", "6", "+", "2", "d", "8", "-", "5", "+", "1", "d", "4">>,
      <<"-", "2", "d", "4", "+", "3">>, <<"-", "2", "d", "4">>,
      <<"+", "3", "d", "8">>, <<"+", "5">>, <<"-", "3">>, <<"+", "3">>,
      <<"1", "d", "6", "+", "0">>, <<"1", "0", "d", "1", "2">>,
      <<"1", "d", "6", "+", "0", "d", "6">>, <<"5", "-", "2", "d", "0">> }

TermStrings == StringsOver(TermChars, MaxLen) \cup TermScenarios

\* every way to hand the string s to the program as one or two arguments
ArgLists(s) == {<<s>>} \cup {<<Upto(s, i), From(s, i)>> : i \in 0..Len(s)}

NoDice == [NumDice |-> 0, Sides |-> 0, Modifier |-> 0, RollMod |-> 0, DropKeep |-> 0]

---------------------------------------------------------------------------
(* The functions of the chained-term grammar, each run on one input *)

InitSplit ==
    /\ cmd \in {"getNextDieStr", "split"}
    /\ pc = "start"
    /\ args \in {<<s>> : s \in TermStrings}
    /\ dice = NoDice /\ rolls = <<>> /\ ret = <<>> /\ rng = 0 /\ out = <<>>

GetNextDieStr ==
    /\ cmd = "getNextDieStr" /\ pc = "start"
    /\ ret' = getNextDieStr(args[1])
    /\ pc' = "done"
    /\ UNCHANGED <<cmd, args, dice, rolls, rng, out>>

Split ==
    /\ cmd = "split" /\ pc = "start"
    /\ ret' = split(args[1])
    /\ pc' = "done"
    /\ UNCHANGED <<cmd, args, dice, rolls, rng, out>>

NextSplit == GetNextDieStr \/ Split

SpecSplit == InitSplit /\ [][NextSplit]_vars

\* C1: the sub-strings split returns concatenate, in order, to its input, and
\* the head and the remainder getNextDieStr returns concatenate to its input.
SplitRoundTrip ==
    pc = "done" =>
        /\ cmd = "split" => Join(ret) = args[1]
        /\ cmd = "getNextDieStr" => ret[1] \o ret[2] = args[1]

\* a split of a string that starts with a sign and has adjacent signs
SplitRoundTripWitness ==
    /\ pc = "done" /\ cmd = "split"
    /\ Len(ret) = 3
    /\ args[1][1] \in Signs /\ args[1][2] \in Signs
    /\ args[1][Len(args[1])] \in Signs

---------------------------------------------------------------------------
(* The parser of the chained-term grammar, run on one input *)

InitParse ==
    /\ pc = "start"
    /\ \/ cmd = "toRollInfo" /\ args \in {<<s>> : s \in TermStrings}
       \/ cmd = "parseOperators" /\ args \in UNION {ArgLists(s) : s \in TermStrings}
    /\ dice = NoDice /\ rolls = <<>> /\ ret = <<>> /\ rng = 0 /\ out = <<>>

\* toRollInfo returns a nil *RollInfo with an error: no term
ToRollInfo ==
    /\ cmd = "toRollInfo" /\ pc = "start"
    /\ ret' = LET r == toRollInfo(args[1])
              IN  [err |-> r.err,
                   rollInfos |-> IF r.err = NoErr THEN <<r.ri>> ELSE <<>>]
    /\ pc' = "done"
    /\ UNCHANGED <<cmd, args, dice, rolls, rng, out>>

ParseOperators ==
    /\ cmd = "parseOperators" /\ pc = "start"
    /\ ret' = parseOperators(args)
    /\ pc' = "done"
    /\ UNCHANGED <<cmd, args, dice, rolls, rng, out>>

NextParse == ToRollInfo \/ ParseOperators

SpecParse == InitParse /\ [][NextParse]_vars

---------------------------------------------------------------------------
(* What the chained-term grammar is stated to be, for the claims on the parser *)

\* the places (from 1) of the signs that start a new term
Boundaries(s) == {i \in 2..Len(s) : s[i] \in Signs}

TermStarts(s) == {1} \cup Boundaries(s)

\* the sub-string that starts at b and ends before the next boundary
TermAt(s, b) ==
    LET later == {i \in Boundaries(s) : i > b}
    IN  SubSeq(s, b, IF later = {} THEN Len(s) ELSE Min(later) - 1)

\* the k-th sign-delimited sub-string of s, from the left
TermText(s, k) ==
    TermAt(s, CHOOSE b \in TermStarts(s) :
                  Cardinality({x \in TermStarts(s) : x < b}) = k - 1)

Body(t) == IF t # <<>> /\ t[1] \in Signs THEN Tail(t) ELSE t

IsNumber(s) == s # <<>> /\ AllDigits(s)

\* the places of a 'd' that has a decimal number on each side
DicePlaces(t) ==
    {p \in 1..Len(Body(t)) :
        /\ Body(t)[p] = "d"
        /\ IsNumber(Upto(Body(t), p - 1))
        /\ IsNumber(From(Body(t), p))}

IsDiceText(t) == DicePlaces(t) # {}

IsFlatText(t) == IsNumber(Body(t))

CountOf(t) == DecimalValue(Upto(Body(t), Min(DicePlaces(t)) - 1))

SidesOf(t) == DecimalValue(From(Body(t), Min(DicePlaces(t))))

ExpectedTerm(t) ==
    [Operation |-> IF t[1] = "-" THEN SubtractOperation ELSE AddOperation,
     Number |-> IF IsDiceText(t) THEN CountOf(t) ELSE 0,
     Sides |-> IF IsDiceText(t) THEN SidesOf(t) ELSE 0,
     Flat |-> IF IsDiceText(t) THEN 0 ELSE DecimalValue(Body(t))]

BareSign(s) == Len(s) = 1 /\ s[1] \in Signs

HasZeroCount(s) ==
    \E b \in TermStarts(s) : IsDiceText(TermAt(s, b)) /\ CountOf(TermAt(s, b)) = 0

HasZeroSides(s) ==
    \E b \in TermStarts(s) : IsDiceText(TermAt(s, b)) /\ SidesOf(TermAt(s, b)) = 0

\* a count, a 'd' and then a negative number: "2d-6"
HasNegativeSides(s) ==
    \E b \in TermStarts(s) :
        LET t == TermAt(s, b)
            e == b + Len(t)
        IN  /\ Body(t) # <<>>
            /\ Body(t)[Len(Body(t))] = "d"
            /\ IsNumber(Upto(Body(t), Len(Body(t)) - 1))
            /\ e <= Len(s) /\ s[e] = "-"
            /\ IsFlatText(TermAt(s, e))

Str1d6 == <<"1", "d", "6">>

\* C5: toRollInfo and parseOperators return an error and no term for the empty
\* input, a bare sign, a dice term with a count of 0 and a dice term with 0 or
\* a negative number of sides; "1d6" gives one add term of 1 die with 6 sides.
ParserRejects ==
    (pc = "done" /\ cmd \in {"toRollInfo", "parseOperators"}) =>
        LET s == Join(args)
        IN  /\ (s = <<>> \/ BareSign(s) \/ HasZeroCount(s) \/ HasZeroSides(s)
                    \/ HasNegativeSides(s))
                => (ret.err # NoErr /\ ret.rollInfos = <<>>)
            /\ s = Str1d6
                => /\ ret.err = NoErr
                   /\ ret.rollInfos = <<[Operation |-> AddOperation, Number |-> 1,
                                          Sides |-> 6, Flat |-> 0]>>

\* parseOperators has refused a count of 0 in the term after a valid one
ParserRejectsWitness ==
    /\ pc = "done" /\ cmd = "parseOperators"
    /\ Cardinality(TermStarts(Join(args))) = 2
    /\ IsDiceText(TermText(Join(args), 1))
    /\ CountOf(TermText(Join(args), 1)) >= 1 /\ SidesOf(TermText(Join(args), 1)) >= 1
    /\ IsDiceText(TermText(Join(args), 2)) /\ CountOf(TermText(Join(args), 2)) = 0
    /\ ret.err = "number of dice must be at least 1"

Str3d6p2d8m5 == <<"3", "d", "6", "+", "2", "d", "8", "-", "5">>

\* C6: on success parseOperators returns one term per sign-delimited
\* sub-string of the joined arguments, in order; each sub-string is a count,
\* 'd' and a side count, or a number, and its term holds its operation and
\* its values.  "3d6+2d8-5" gives add(3,d6), add(2,d8), subtract(flat 5).
ParserTerms ==
    (pc = "done" /\ cmd = "parseOperators" /\ ret.err = NoErr) =>
        LET s == Join(args)
        IN  /\ Len(ret.rollInfos) = Cardinality(TermStarts(s))
            /\ \A k \in 1..Len(ret.rollInfos) :
                    /\ IsDiceText(TermText(s, k)) \/ IsFlatText(TermText(s, k))
                    /\ ret.rollInfos[k] = ExpectedTerm(TermText(s, k))
            /\ s = Str3d6p2d8m5 =>
                    ret.rollInfos =
                        << [Operation |-> AddOperation, Number |-> 3, Sides |-> 6, Flat |-> 0],
                           [Operation |-> AddOperation, Number |-> 2, Sides |-> 8, Flat |-> 0],
                           [Operation |-> SubtractOperation, Number |-> 0, Sides |-> 0, Flat |-> 5] >>

\* "3d6+2d8-5" handed over as two arguments and parsed into three terms
ParserTermsWitness ==
    /\ pc = "done" /\ cmd = "parseOperators" /\ ret.err = NoErr
    /\ Len(args) = 2 /\ args[1] # <<>> /\ args[2] # <<>>
    /\ Join(args) = Str3d6p2d8m5
    /\ Len(ret.rollInfos) = 3

\* C7: each term parseOperators returns has one shape: a term parsed from
\* count-'d'-sides is a dice term with Number >= 1, Sides >= 1 and no flat
\* value, a term parsed from a number is a flat term without dice fields, and
\* normGen and RollInfo.String take it for the shape it was parsed from.
TermShapes ==
    (pc = "done" /\ cmd = "parseOperators" /\ ret.err = NoErr) =>
        \A k \in 1..Len(ret.rollInfos) :
            LET t == TermText(Join(args), k)
                ri == ret.rollInfos[k]
                printed == RollInfoString(ri)
            IN  IF IsDiceText(t)
                THEN /\ ri.Number >= 1 /\ ri.Sides >= 1 /\ ri.Flat = 0
                     /\ ~isFlat(ri)
                     /\ \E i \in 1..Len(printed) : printed[i] = "d"
                ELSE /\ ri.Number = 0 /\ ri.Sides = 0
                     /\ isFlat(ri)
                     /\ \A i \in 1..Len(printed) : printed[i] # "d"

---------------------------------------------------------------------------
(* Package roll: a single dice group with a drop/keep rule *)

ModNone == 0
ModAdvantage == 1
ModDisadvantage == 2
ModDropLowest == 3
ModDropHighest == 4
ModKeepHighest == 5
ModKeepLowest == 6

Modifiers == ModNone..ModKeepLowest

RECURSIVE Sum(_)
Sum(s) == IF s = <<>> THEN 0 ELSE Head(s) + Sum(Tail(s))

RECURSIVE InsertSorted(_, _)
InsertSorted(x, s) ==
    IF s = <<>> THEN <<x>>
    ELSE IF x <= Head(s) THEN <<x>> \o s
    ELSE <<Head(s)>> \o InsertSorted(x, Tail(s))

RECURSIVE SortInts(_)
\* sort.Ints on a copy: the values in ascending order
SortInts(s) ==
    IF s = <<>> THEN <<>> ELSE InsertSorted(Head(s), SortInts(Tail(s)))

applyRollModifier_NoSort(rs, mod, count) ==
    IF mod = ModNone \/ count = 0 \/ count >= Len(rs)
    THEN [kept |-> rs, dropped |-> <<>>]
    ELSE CASE mod = ModDropLowest ->
                [kept |-> From(rs, count), dropped |-> Upto(rs, count)]
           [] mod = ModDropHighest ->
                [kept |-> Upto(rs, Len(rs) - count), dropped |-> From(rs, Len(rs) - count)]
           [] mod = ModKeepHighest ->
                [kept |-> From(rs, Len(rs) - count), dropped |-> Upto(rs, Len(rs) - count)]
           [] mod = ModKeepLowest ->
                [kept |-> Upto(rs, count), dropped |-> From(rs, count)]
           [] OTHER -> [kept |-> rs, dropped |-> <<>>]

applyRollModifier_DropsOneMore(rs, mod, count) ==
    LET sorted == SortInts(rs)
    IN  IF mod = ModNone \/ count = 0 \/ count > Len(rs)
        THEN [kept |-> rs, dropped |-> <<>>]
        ELSE CASE mod = ModDropLowest ->
                    [kept |-> From(sorted, count + 1), dropped |-> Upto(sorted, count)]
               [] mod = ModDropHighest ->
                    [kept |-> Upto(sorted, Len(sorted) - count),
                     dropped |-> From(sorted, Len(sorted) - count)]
               [] mod = ModKeepHighest ->
                    [kept |-> From(sorted, Len(sorted) - count),
                     dropped |-> Upto(sorted, Len(sorted) - count)]
               [] mod = ModKeepLowest ->
                    [kept |-> Upto(sorted, count), dropped |-> From(sorted, count)]
               [] OTHER -> [kept |-> rs, dropped |-> <<>>]

\* A nil slice and an empty one are both <<>>.  count is never negative here:
\* Parse reads it with \d+ and the constructors set it to 1.
applyRollModifier(rs, mod, count) ==
    LET sorted == SortInts(rs)
    IN  IF mod = ModNone \/ count = 0 \/ count >= Len(rs)
        THEN [kept |-> rs, dropped |-> <<>>]
        ELSE CASE mod = ModDropLowest ->
                    [kept |-> From(sorted, count), dropped |-> Upto(sorted, count)]
               [] mod = ModDropHighest ->
                    [kept |-> Upto(sorted, Len(sorted) - count),
                     dropped |-> From(sorted, Len(sorted) - count)]
               [] mod = ModKeepHighest ->
                    [kept |-> From(sorted, Len(sorted) - count),
                     dropped |-> Upto(sorted, Len(sorted) - count)]
               [] mod = ModKeepLowest ->
                    [kept |-> Upto(sorted, count), dropped |-> From(sorted, count)]
               [] OTHER -> [kept |-> rs, dropped |-> <<>>]

rollsAfterModifier_SortsInPlace(rs, mod, count) ==
    IF mod = ModNone \/ count = 0 \/ count >= Len(rs) THEN rs ELSE SortInts(rs)

\* The slice rolls after applyRollModifier has returned.  Dice.Roll has
\* stored the same slice in result.Rolls before the call; the call reads it
\* into the copy it sorts and never writes to it.
rollsAfterModifier(rs, mod, count) ==
    rs

\* strings.ToLower on the letters this model uses
ToLower(s) ==
    [i \in 1..Len(s) |->
        CASE s[i] = "D" -> "d" [] s[i] = "L" -> "l" [] s[i] = "H" -> "h"
          [] s[i] = "K" -> "k" [] OTHER -> s[i]]

RECURSIVE TrimSpace(_)
\* strings.TrimSpace
TrimSpace(s) ==
    IF s # <<>> /\ s[1] = " " THEN TrimSpace(Tail(s))
    ELSE IF s # <<>> /\ s[Len(s)] = " " THEN TrimSpace(Upto(s, Len(s) - 1))
    ELSE s

\* length of the longest run of decimal digits at the start of s: \d+ is greedy
DigitRun(s) ==
    IF \A i \in 1..Len(s) : s[i] \in Digits THEN Len(s)
    ELSE Min({i \in 1..Len(s) : s[i] \notin Digits}) - 1

Suffixes == {<<"d", "l">>, <<"d", "h">>, <<"k", "h">>, <<"k", "l">>}

NoMatch == [matched |-> FALSE, m |-> <<>>]

\* ([+-]\d+)?$ on r5, the text after the groups g1..g4
matchModifier(g1, g2, g3, g4, r5) ==
    IF r5 = <<>> THEN [matched |-> TRUE, m |-> <<g1, g2, g3, g4, <<>>>>]
    ELSE IF r5[1] \in Signs /\ Len(r5) >= 2 /\ DigitRun(Tail(r5)) = Len(r5) - 1
    THEN [matched |-> TRUE, m |-> <<g1, g2, g3, g4, r5>>]
    ELSE NoMatch

\* (\d+)? on r4
matchCount(g1, g2, g3, r4) ==
    matchModifier(g1, g2, g3, Upto(r4, DigitRun(r4)), From(r4, DigitRun(r4)))

\* (dl|dh|kh|kl)? on r3
matchSuffix(g1, g2, r3) ==
    IF Len(r3) >= 2 /\ Upto(r3, 2) \in Suffixes
    THEN matchCount(g1, g2, Upto(r3, 2), From(r3, 2))
    ELSE matchCount(g1, g2, <<>>, r3)

\* d(\d+) on r1
matchSides(g1, r1) ==
    IF r1 = <<>> \/ r1[1] # "d" \/ DigitRun(Tail(r1)) = 0 THEN NoMatch
    ELSE matchSuffix(g1, Upto(Tail(r1), DigitRun(Tail(r1))),
                     From(Tail(r1), DigitRun(Tail(r1))))

\* diceRegex.FindStringSubmatch: ^(\d+)?d(\d+)(dl|dh|kh|kl)?(\d+)?([+-]\d+)?$
\* The text after a run of digits does not depend on how the run is shared
\* out, so the greedy choice of each group is the only match there can be.
\* m[1]..m[5] are the groups, "" for one that took no part.
diceRegexMatch(s) == matchSides(Upto(s, DigitRun(s)), From(s, DigitRun(s)))

suffixMod(g) ==
    CASE g = <<"d", "l">> -> ModDropLowest
      [] g = <<"d", "h">> -> ModDropHighest
      [] g = <<"k", "h">> -> ModKeepHighest
      [] g = <<"k", "l">> -> ModKeepLowest
      [] OTHER -> ModNone

diceOf_NoDefaultCount(m) ==
    [NumDice |-> IF m[1] # <<>> THEN Atoi(m[1]).val ELSE 1,
     Sides |-> Atoi(m[2]).val,
     Modifier |-> IF m[5] # <<>> THEN Atoi(m[5]).val ELSE 0,
     RollMod |-> IF m[3] # <<>> THEN suffixMod(m[3]) ELSE ModNone,
     DropKeep |-> IF m[3] = <<>> \/ m[4] = <<>> THEN 0 ELSE Atoi(m[4]).val]

\* the Dice that Parse fills in from the groups
diceOf(m) ==
    [NumDice |-> IF m[1] # <<>> THEN Atoi(m[1]).val ELSE 1,
     Sides |-> Atoi(m[2]).val,
     Modifier |-> IF m[5] # <<>> THEN Atoi(m[5]).val ELSE 0,
     RollMod |-> IF m[3] # <<>> THEN suffixMod(m[3]) ELSE ModNone,
     DropKeep |-> IF m[3] = <<>> THEN 0
                  ELSE IF m[4] # <<>> THEN Atoi(m[4]).val ELSE 1]

\* Parse after the match.  Its Atoi errors need a number out of the range
\* of int, which no string of this model holds.
parseMatch(found) ==
    IF ~found.matched
    THEN [err |-> "invalid dice expression", dice |-> NoDice]
    ELSE IF \E i \in {1, 2, 4, 5} : found.m[i] # <<>> /\ Atoi(found.m[i]).err # NoErr
    THEN [err |-> "invalid number", dice |-> NoDice]
    ELSE [err |-> NoErr, dice |-> diceOf(found.m)]

Parse(expr) == parseMatch(diceRegexMatch(TrimSpace(ToLower(expr))))

\* the zero value of Result, standing for the nil *Result
NoResult ==
    [Expression |-> <<>>, Rolls |-> <<>>, Dropped |-> <<>>, Kept |-> <<>>,
     Modifier |-> 0, Total |-> 0, Sides |-> 0, NumDice |-> 0]

rollCheck_NoCountCheck(d) ==
    IF d.Sides < 1 THEN "dice must have at least 1 side" ELSE NoErr

\* the checks Dice.Roll makes before it draws
rollCheck(d) ==
    IF d.NumDice < 1 THEN "must roll at least 1 die"
    ELSE IF d.Sides < 1 THEN "dice must have at least 1 side"
    ELSE NoErr

\* what rollDie can return for each of the dice of d: rand.Intn(sides) + 1
DiceDraws(d) == [1..d.NumDice -> 1..d.Sides]

rollResult_ForgetsModifier(d, draws) ==
    LET picked == applyRollModifier(draws, d.RollMod, d.DropKeep)
    IN  [Expression |-> <<>>, Rolls |-> draws, Dropped |-> picked.dropped,
         Kept |-> picked.kept, Modifier |-> d.Modifier,
         Total |-> Sum(picked.kept),
         Sides |-> d.Sides, NumDice |-> d.NumDice]

\* the Result Dice.Roll builds from the draws.  Go's int wraps at 64 bits, in
\* the sum and in the Total alike; the values of this model are far from it.
rollResult(d, draws) ==
    LET picked == applyRollModifier(draws, d.RollMod, d.DropKeep)
    IN  [Expression |-> <<>>,
         Rolls |-> rollsAfterModifier(draws, d.RollMod, d.DropKeep),
         Dropped |-> picked.dropped,
         Kept |-> picked.kept, Modifier |-> d.Modifier,
         Total |-> Sum(picked.kept) + d.Modifier,
         Sides |-> d.Sides, NumDice |-> d.NumDice]

\* The draws a call can get from the random source: what rollDie returns for
\* each die of d.  A call that fails its checks draws nothing.
RollOracle(d) ==
    IF d.NumDice >= 1 /\ d.Sides >= 1 THEN DiceDraws(d) ELSE {<<>>}

\* Dice.Roll, draws being what the random source yields; drawn is how many
\* draws the call took from it
diceRoll(d, draws) ==
    IF rollCheck(d) # NoErr
    THEN [err |-> rollCheck(d), result |-> NoResult, drawn |-> 0]
    ELSE [err |-> NoErr, result |-> rollResult(d, draws), drawn |-> Len(draws)]

\* RollString after Parse
rollParsed(expr, parsed, draws) ==
    IF parsed.err # NoErr
    THEN [err |-> parsed.err, result |-> NoResult, drawn |-> 0]
    ELSE IF rollCheck(parsed.dice) # NoErr THEN diceRoll(parsed.dice, draws)
    ELSE [diceRoll(parsed.dice, draws) EXCEPT !.result.Expression = expr]

RollString(expr, draws) == rollParsed(expr, Parse(expr), draws)

\* the %+d verb of fmt
PlusD(n) == IF n < 0 THEN <<"-">> \o NatToStr(0 - n) ELSE <<"+">> \o NatToStr(n)

advantageDice_KeepsLowest(modifier) ==
    [NumDice |-> 2, Sides |-> 20, Modifier |-> modifier,
     RollMod |-> ModKeepLowest, DropKeep |-> 1]

\* the Dice of RollAdvantage
advantageDice(modifier) ==
    [NumDice |-> 2, Sides |-> 20, Modifier |-> modifier,
     RollMod |-> ModKeepHighest, DropKeep |-> 1]

\* the Dice of RollDisadvantage
disadvantageDice(modifier) ==
    [NumDice |-> 2, Sides |-> 20, Modifier |-> modifier,
     RollMod |-> ModKeepLowest, DropKeep |-> 1]

\* the Dice of RollAbilityScore
abilityScoreDice ==
    [NumDice |-> 4, Sides |-> 6, Modifier |-> 0,
     RollMod |-> ModDropLowest, DropKeep |-> 1]

\* a constructor after d.Roll(): the Expression is set on success only
rollNamed(rolled, expression) ==
    IF rolled.err # NoErr THEN rolled
    ELSE [rolled EXCEPT !.result.Expression = expression]

RollAdvantage(modifier, draws) ==
    rollNamed(diceRoll(advantageDice(modifier), draws),
              <<"2", "d", "2", "0", "k", "h", "1">> \o PlusD(modifier)
                  \o <<" ", "(", "a", "d", "v", "a", "n", "t", "a", "g", "e", ")">>)

RollDisadvantage(modifier, draws) ==
    rollNamed(diceRoll(disadvantageDice(modifier), draws),
              <<"2", "d", "2", "0", "k", "l", "1">> \o PlusD(modifier)
                  \o <<" ", "(", "d", "i", "s", "a", "d", "v", "a", "n", "t", "a", "g", "e", ")">>)

RollAbilityScore(draws) ==
    rollNamed(diceRoll(abilityScoreDice, draws),
              <<"4", "d", "6", "d", "l", "1", " ", "(", "a", "b", "i", "l", "i", "t", "y",
                " ", "s", "c", "o", "r", "e", ")">>)

---------------------------------------------------------------------------
(* Package rolls: the evaluators *)

AgeDiceCount == 3
AgeDiceSides == 6

StrAge == <<"a", "g", "e">>

parseModifier(modifier) ==
    IF modifier = <<>> THEN [err |-> NoErr, val |-> 0, negative |-> FALSE]
    ELSE
    LET signed == Len(modifier) >= 2 /\ modifier[1] \in Signs
        numIndexStart == IF signed THEN 1 ELSE 0
        negative == signed /\ modifier[1] = "-"
        parsed == Atoi(From(modifier, numIndexStart))
    IN  IF numIndexStart >= Len(modifier)
        THEN [err |-> "modifier has no numeric value", val |-> 0, negative |-> FALSE]
        ELSE IF parsed.err # NoErr
        THEN [err |-> parsed.err, val |-> 0, negative |-> FALSE]
        ELSE [err |-> NoErr, val |-> parsed.val, negative |-> negative]

\* the three draws of ageGen
AgeDraws == [1..AgeDiceCount -> 1..AgeDiceSides]

ageReport_StuntNeedsThree(d, mod) ==
    [kind |-> "age", dice |-> d,
     modifier |-> IF mod.negative THEN 0 - mod.val ELSE mod.val,
     total |-> IF mod.negative THEN Sum(d) - mod.val ELSE Sum(d) + mod.val,
     stuntPoints |-> d[1] = d[2] /\ d[2] = d[3],
     stunt |-> d[3],
     drama |-> d[3] = AgeDiceSides]

\* what ageGen prints after the dice
ageReport(d, mod) ==
    [kind |-> "age", dice |-> d,
     modifier |-> IF mod.negative THEN 0 - mod.val ELSE mod.val,
     total |-> IF mod.negative THEN Sum(d) - mod.val ELSE Sum(d) + mod.val,
     stuntPoints |-> d[1] = d[2] \/ d[1] = d[3] \/ d[2] = d[3],
     stunt |-> d[3],
     drama |-> d[3] = AgeDiceSides]

ageGen_RollsFirst(list, draws) ==
    LET mod == parseModifier(IF Len(list) >= 2 THEN list[2] ELSE <<"0">>)
    IN  IF mod.err # NoErr
        THEN [err |-> "invalid modifier", lines |-> <<>>, drawn |-> AgeDiceCount]
        ELSE [err |-> NoErr, lines |-> <<ageReport(draws, mod)>>,
              drawn |-> AgeDiceCount]

\* ageGen, draws being what the random source yields
ageGen(list, draws) ==
    LET mod == parseModifier(IF Len(list) >= 2 THEN list[2] ELSE <<"0">>)
    IN  IF Len(list) = 0
        THEN [err |-> "age command requires arguments", lines |-> <<>>, drawn |-> 0]
        ELSE IF mod.err # NoErr
        THEN [err |-> "invalid modifier", lines |-> <<>>, drawn |-> 0]
        ELSE [err |-> NoErr, lines |-> <<ageReport(draws, mod)>>,
              drawn |-> AgeDiceCount]

\* the draws normGen can get for one term: none for a term it takes for flat
TermDraws(ri) ==
    IF isFlat(ri) THEN {<<>>} ELSE [1..ri.Number -> 1..ri.Sides]

RECURSIVE NormDraws(_)
\* the draws normGen can get, term by term
NormDraws(dieGens) ==
    IF dieGens = <<>> THEN {<<>>}
    ELSE {<<d>> \o rest : d \in TermDraws(Head(dieGens)),
                          rest \in NormDraws(Tail(dieGens))}

rollSum_DropsFlat(ri, d) == Sum(d)

\* rollSum of one pass of normGen's loop
rollSum(ri, d) == IF isFlat(ri) THEN ri.Flat ELSE Sum(d)

RECURSIVE normTotal(_, _)
normTotal(dieGens, draws) ==
    IF dieGens = <<>> THEN 0
    ELSE LET n == Len(dieGens)
             before == normTotal(Upto(dieGens, n - 1), Upto(draws, n - 1))
         IN  IF dieGens[n].Operation = SubtractOperation
             THEN before - rollSum(dieGens[n], draws[n])
             ELSE before + rollSum(dieGens[n], draws[n])

\* what normGen prints: a line for each term, then the total
normGen(dieGens, draws) ==
    IF Len(dieGens) = 0 THEN <<[kind |-> "no die combos provided"]>>
    ELSE [k \in 1..Len(dieGens) |->
            [kind |-> "term", text |-> RollInfoString(dieGens[k]),
             shown |-> IF isFlat(dieGens[k]) THEN <<dieGens[k].Flat>> ELSE draws[k]]]
         \o <<[kind |-> "total", total |-> normTotal(dieGens, draws)]>>

---------------------------------------------------------------------------
(* applyRollModifier run on one input *)

\* the rolls of the tests of applyRollModifier
ModifierScenario == <<3, 5, 2, 6>>

InitModifier ==
    /\ cmd = "applyRollModifier" /\ pc = "start"
    /\ rolls \in UNION {[1..n -> 1..MaxSides] : n \in 0..(MaxDice + 1)}
                  \cup {ModifierScenario}
    /\ \E mod \in Modifiers, count \in 0..(Len(rolls) + 1) :
           dice = [NoDice EXCEPT !.RollMod = mod, !.DropKeep = count]
    /\ args = <<>> /\ ret = <<>> /\ rng = 0 /\ out = <<>>

ApplyRollModifier ==
    /\ cmd = "applyRollModifier" /\ pc = "start"
    /\ ret' = applyRollModifier(rolls, dice.RollMod, dice.DropKeep)
    /\ pc' = "done"
    /\ UNCHANGED <<cmd, args, dice, rolls, rng, out>>

NextModifier == ApplyRollModifier

SpecModifier == InitModifier /\ [][NextModifier]_vars

\* how often v occurs in s
Occurs(s, v) == Cardinality({i \in 1..Len(s) : s[i] = v})

SameMultiset(s, t) ==
    /\ Len(s) = Len(t)
    /\ \A i \in 1..Len(s) : Occurs(s, s[i]) = Occurs(t, s[i])

\* a drop/keep rule with a count it acts on
RuleActs ==
    /\ dice.RollMod \in ModDropLowest..ModKeepLowest
    /\ 0 < dice.DropKeep /\ dice.DropKeep < Len(rolls)

\* C2: kept and dropped together hold the rolls, value for value; with no
\* rule, a count of 0 or a count of at least len(rolls), nothing is dropped
\* and kept is the rolls in the order drawn.
KeptDroppedPartition ==
    (cmd = "applyRollModifier" /\ pc = "done") =>
        /\ SameMultiset(ret.kept \o ret.dropped, rolls)
        /\ (dice.RollMod = ModNone \/ dice.DropKeep = 0 \/ dice.DropKeep >= Len(rolls))
            => (ret.dropped = <<>> /\ ret.kept = rolls)

\* a count equal to len(rolls) under a rule, the rolls not in ascending order
KeptDroppedPartitionWitness ==
    /\ cmd = "applyRollModifier" /\ pc = "done"
    /\ dice.RollMod = ModDropLowest /\ dice.DropKeep = Len(rolls)
    /\ Len(rolls) = 3 /\ rolls[1] > rolls[2]
    /\ ret.kept = rolls

\* C4: under a rule that acts, dropLowest(n) and keepLowest(n) put the n
\* lowest values in dropped and in kept, dropHighest(n) and keepHighest(n)
\* the n highest; the counts are exact also with ties, and no kept value
\* is on the wrong side of a dropped one.
SelectsByRank ==
    (cmd = "applyRollModifier" /\ pc = "done" /\ RuleActs) =>
        LET n == dice.DropKeep
            mod == dice.RollMod
            all == Len(rolls)
        IN  /\ SameMultiset(ret.kept \o ret.dropped, rolls)
            /\ mod = ModDropLowest =>
                    /\ Len(ret.dropped) = n /\ Len(ret.kept) = all - n
                    /\ \A i \in 1..Len(ret.kept), j \in 1..Len(ret.dropped) :
                            ret.kept[i] >= ret.dropped[j]
            /\ mod = ModDropHighest =>
                    /\ Len(ret.dropped) = n /\ Len(ret.kept) = all - n
                    /\ \A i \in 1..Len(ret.kept), j \in 1..Len(ret.dropped) :
                            ret.kept[i] <= ret.dropped[j]
            /\ mod = ModKeepHighest =>
                    /\ Len(ret.kept) = n /\ Len(ret.dropped) = all - n
                    /\ \A i \in 1..Len(ret.kept), j \in 1..Len(ret.dropped) :
                            ret.kept[i] >= ret.dropped[j]
            /\ mod = ModKeepLowest =>
                    /\ Len(ret.kept) = n /\ Len(ret.dropped) = all - n
                    /\ \A i \in 1..Len(ret.kept), j \in 1..Len(ret.dropped) :
                            ret.kept[i] <= ret.dropped[j]

\* one of two equal lowest values dropped, out of unsorted rolls
SelectsByRankWitness ==
    /\ cmd = "applyRollModifier" /\ pc = "done"
    /\ dice.RollMod = ModDropLowest /\ dice.DropKeep = 1
    /\ Len(rolls) = 3 /\ rolls[1] > rolls[2] /\ rolls[2] = rolls[3]
    /\ ret.dropped = <<rolls[2]>> /\ ret.kept = <<rolls[3], rolls[1]>>

---------------------------------------------------------------------------
(* The two programs and the entry points of package roll *)

\* most expressions on one command line of cmd/roll
MaxExprs == 2

\* the characters of the enumerated strings of the single-group grammar
DiceChars == {"d", "l", "h", "k", "0", "1", "2", "+", "-"}

\* the expressions of the tests of package roll and of the spec's scenarios
DiceScenarios ==
    { <<"d", "2", "0">>, <<"2", "d", "6">>, <<"1", "d", "2", "0", "+", "5">>,
      <<"1", "d", "2", "0", "-", "3">>, <<"4", "d", "6", "d", "l", "1">>,
      <<"4", "d", "6", "d", "l">>, <<"2", "d", "2", "0", "k", "h", "1">>,
      <<"2", "d", "2", "0", "k", "l", "1">>, <<"5", "d", "1", "0", "d", "h", "2">>,
      <<"n", "o", "t", " ", "a", " ", "d", "i", "c", "e", " ", "r", "o", "l", "l">>,
      <<"2", "d", "6", "+", "3">>, <<"i", "n", "v", "a", "l", "i", "d">>,
      <<"0", "d", "6">>, <<"2", "d", "0">>, <<"0", "d", "6", "d", "l", "1">>,
      <<"2", "d", "6", "+", "1", "d", "4">>, <<"2", "D", "6">>, <<" ", "2", "d", "6", " ">>,
      <<"3", "d", "2", "k", "h", "2", "-", "1">>, <<"3", "d", "3", "d", "l", "1", "+", "1">>,
      <<"2", "d", "2", "k", "l", "1", "+", "1">> }

DiceStrings == StringsOver(DiceChars, MaxLen) \cup DiceScenarios

\* an expression whose roll stays within the bounds of the model
Rollable(expr) ==
    LET parsed == Parse(expr)
    IN  \/ parsed.err # NoErr
        \/ rollCheck(parsed.dice) # NoErr
        \/ parsed.dice.NumDice <= MaxDice /\ parsed.dice.Sides <= MaxSides

\* the expressions handed to handleRolls
ExprPool ==
    { <<"1", "d", "2">>, <<"2", "d", "2", "k", "l", "1", "+", "1">>,
      <<"0", "d", "6">>, <<"2", "d", "0">>, <<"2", "d", "6", "+", "1", "d", "4">>,
      <<"d", "2", "-", "1">> }

\* longer chains of terms that are rolled
RollScenarios ==
    { <<"1", "d", "2", "+", "1", "d", "2">>, <<"2", "d", "2", "-", "1">>,
      <<"1", "d", "2", "+", "0">>, <<"-", "1", "d", "2", "+", "2">>,
      <<"1", "d", "6", "2", "d", "0">>, <<"1", "d", "2", "1", "d", "2">>,
      <<"1", "d", "2", "+", "0", "d", "2">>, <<"1", "d", "2", "+", "x">>,
      <<"0", "-", "2", "d", "2">> }

\* an argument list whose roll stays within the bounds of the model
RollableArgs(list) ==
    LET parsed == parseOperators(list)
    IN  \/ parsed.err # NoErr
        \/ \A k \in 1..Len(parsed.rollInfos) :
                /\ parsed.rollInfos[k].Number <= MaxDice
                /\ parsed.rollInfos[k].Sides <= MaxSides

\* the command lines of the age generator
AgeArgs ==
    { <<StrAge>>, <<StrAge, <<"+", "2">>>>, <<StrAge, <<"-", "1">>>>, <<StrAge, <<"0">>>>,
      <<StrAge, <<"7">>>>, <<StrAge, <<"+">>>>, <<StrAge, <<"+", "a", "b", "c">>>>,
      <<StrAge, <<>>>>, <<StrAge, <<"-", "-", "1">>>> }

Init ==
    /\ \/ /\ cmd = "Parse" /\ pc = "start"
          /\ args \in {<<s>> : s \in DiceStrings}
          /\ dice = NoDice
       \/ /\ cmd = "RollString" /\ pc = "start"
          /\ args \in {<<s>> : s \in {x \in StringsOver(DiceChars, MaxLen - 1)
                                               \cup DiceScenarios : Rollable(x)}}
          /\ dice = NoDice
       \/ /\ cmd = "Dice.Roll" /\ pc = "start"
          /\ args = <<>>
          /\ dice \in [NumDice : -1..MaxDice, Sides : -1..MaxSides,
                        Modifier : (0 - MaxMod)..MaxMod, RollMod : Modifiers,
                        DropKeep : 0..(MaxDice + 1)]
       \/ /\ cmd = "handleRolls" /\ pc = "loop"
          /\ args \in UNION {[1..n -> ExprPool] : n \in 1..MaxExprs}
          /\ dice = NoDice
       \/ /\ cmd = "Roll" /\ pc = "start"
          /\ args \in AgeArgs \cup
                 {a \in UNION {ArgLists(s) : s \in StringsOver(TermChars, MaxLen - 1)
                                    \cup TermScenarios \cup RollScenarios} :
                     RollableArgs(a)}
          /\ dice = NoDice
    /\ rolls = <<>> /\ ret = <<>> /\ rng = 0 /\ out = <<>>

ParseExpr ==
    /\ cmd = "Parse" /\ pc = "start"
    /\ ret' = Parse(args[1])
    /\ pc' = "done"
    /\ UNCHANGED <<cmd, args, dice, rolls, rng, out>>

DiceRoll ==
    /\ cmd = "Dice.Roll" /\ pc = "start"
    /\ \E draws \in RollOracle(dice) :
          /\ ret' = diceRoll(dice, draws)
          /\ rolls' = draws
          /\ rng' = rng + ret'.drawn
    /\ pc' = "done"
    /\ UNCHANGED <<cmd, args, dice, out>>

RollStringCall ==
    /\ cmd = "RollString" /\ pc = "start"
    /\ \E draws \in RollOracle(Parse(args[1]).dice) :
          /\ ret' = RollString(args[1], draws)
          /\ rng' = rng + ret'.drawn
    /\ pc' = "done"
    /\ UNCHANGED <<cmd, args, dice, rolls, out>>

\* one pass of the loop of handleRolls: the expression after those reported
HandleRolls ==
    /\ cmd = "handleRolls" /\ pc = "loop"
    /\ LET expr == args[Len(out) + 1]
       IN  \E draws \in RollOracle(Parse(expr).dice) :
              LET r == RollString(expr, draws)
              IN  /\ out' = Append(out, [expr |-> expr, err |-> r.err,
                                          result |-> r.result])
                  /\ rng' = rng + r.drawn
    /\ pc' = IF Len(out) + 1 = Len(args) THEN "done" ELSE "loop"
    /\ UNCHANGED <<cmd, args, dice, rolls, ret>>

\* Roll with "age" first: ageGen, its error logged
RollAge ==
    /\ cmd = "Roll" /\ pc = "start" /\ args[1] = StrAge
    /\ \E draws \in AgeDraws :
          LET r == ageGen(args, draws)
          IN  /\ ret' = [err |-> r.err]
              /\ out' = IF r.err # NoErr
                         THEN Append(out, [kind |-> "log", err |-> r.err])
                         ELSE out \o r.lines
              /\ rng' = rng + r.drawn
    /\ pc' = "done"
    /\ UNCHANGED <<cmd, args, dice, rolls>>

\* Roll on terms that do not parse: log.Fatalln ends the process
RollFatal ==
    /\ cmd = "Roll" /\ pc = "start" /\ args[1] # StrAge
    /\ parseOperators(args).err # NoErr
    /\ ret' = [err |-> parseOperators(args).err]
    /\ out' = Append(out, [kind |-> "fatal", err |-> parseOperators(args).err])
    /\ pc' = "exit"
    /\ UNCHANGED <<cmd, args, dice, rolls, rng>>

\* Roll on terms that parse: normGen
RollNormGen ==
    /\ cmd = "Roll" /\ pc = "start" /\ args[1] # StrAge
    /\ parseOperators(args).err = NoErr
    /\ \E draws \in NormDraws(parseOperators(args).rollInfos) :
          /\ out' = out \o normGen(parseOperators(args).rollInfos, draws)
          /\ rng' = rng + Sum([k \in 1..Len(draws) |-> Len(draws[k])])
    /\ ret' = [err |-> NoErr]
    /\ pc' = "done"
    /\ UNCHANGED <<cmd, args, dice, rolls>>

Next ==
    \/ ParseExpr
    \/ DiceRoll
    \/ RollStringCall
    \/ HandleRolls
    \/ RollAge
    \/ RollFatal
    \/ RollNormGen

Spec == Init /\ [][Next]_vars

\* the call has returned, or the program has ended
Ended == pc \in {"done", "exit"}

\* C3: every Result that Dice.Roll returns without an error has
\* sum(Kept) + Modifier = Total, whatever the rule, the count and the sign
\* of the flat modifier.
TotalIsKeptPlusModifier ==
    /\ (cmd \in {"Dice.Roll", "RollString"} /\ Ended /\ ret.err = NoErr) =>
            Sum(ret.result.Kept) + ret.result.Modifier = ret.result.Total
    /\ cmd = "handleRolls" =>
            \A k \in 1..Len(out) :
                out[k].err = NoErr =>
                    Sum(out[k].result.Kept) + out[k].result.Modifier = out[k].result.Total

\* three dice, the highest kept, a negative flat modifier
TotalIsKeptPlusModifierWitness ==
    /\ cmd = "Dice.Roll" /\ Ended /\ ret.err = NoErr
    /\ dice.NumDice = 3 /\ dice.RollMod = ModKeepHighest /\ dice.DropKeep = 1
    /\ dice.Modifier < 0
    /\ Len(ret.result.Dropped) = 2 /\ ret.result.Dropped[2] < ret.result.Kept[1]
    /\ ret.result.Total = ret.result.Kept[1] + dice.Modifier

Str0d6 == <<"0", "d", "6">>
Str2d0 == <<"2", "d", "0">>
Str0d6dl1 == <<"0", "d", "6", "d", "l", "1">>

\* C8 as stated: every Dice that Parse returns without an error has
\* NumDice >= 1, Sides >= 1 and DropKeep >= 0, and Parse rejects "0d6", "2d0"
\* and "0d6dl1".
ParseValidatesCounts ==
    (cmd = "Parse" /\ Ended) =>
        /\ ret.err = NoErr =>
                ret.dice.NumDice >= 1 /\ ret.dice.Sides >= 1 /\ ret.dice.DropKeep >= 0
        /\ args[1] \in {Str0d6, Str2d0, Str0d6dl1} => ret.err # NoErr

\* C8 amended: a Dice that Parse returns has NumDice >= 0, Sides >= 0 and
\* DropKeep >= 0, and Parse accepts a count or a side count of 0; Dice.Roll,
\* and so RollString, refuses such a Dice with an error and without a draw,
\* so that every Result has NumDice >= 1 and Sides >= 1.
RollValidatesCounts ==
    /\ (cmd = "Parse" /\ Ended) =>
            /\ ret.err = NoErr =>
                    ret.dice.NumDice >= 0 /\ ret.dice.Sides >= 0 /\ ret.dice.DropKeep >= 0
            /\ args[1] \in {Str0d6, Str0d6dl1} => (ret.err = NoErr /\ ret.dice.NumDice = 0)
            /\ args[1] = Str2d0 => (ret.err = NoErr /\ ret.dice.Sides = 0)
    /\ (cmd = "RollString" /\ Ended) =>
            /\ ret.err = NoErr =>
                    ret.result.NumDice >= 1 /\ ret.result.Sides >= 1
            /\ args[1] \in {Str0d6, Str2d0, Str0d6dl1} => (ret.err # NoErr /\ rng = 0)
    /\ (cmd = "Dice.Roll" /\ Ended) =>
            (ret.err = NoErr <=> (dice.NumDice >= 1 /\ dice.Sides >= 1))

\* RollString has refused "0d6dl1", which Parse takes
RollValidatesCountsWitness ==
    /\ cmd = "RollString" /\ Ended
    /\ args[1] = Str0d6dl1
    /\ ret.err = "must roll at least 1 die"

\* an expression that handleRolls rolls
ValidExpr(expr) ==
    Parse(expr).err = NoErr /\ rollCheck(Parse(expr).dice) = NoErr

\* C9: with several expressions on one command line, every valid one, before
\* or after a failing one, is rolled and reported, and a failing one is
\* reported as an error of its own.
ExprsIndependent ==
    /\ (cmd = "handleRolls" /\ Ended) =>
            /\ Len(out) = Len(args)
            /\ \A i \in 1..Len(args) :
                    /\ out[i].expr = args[i]
                    /\ ValidExpr(args[i]) <=> out[i].err = NoErr
                    /\ ValidExpr(args[i]) => out[i].result.Expression = args[i]
    /\ (cmd = "Roll" /\ Ended /\ args[1] # StrAge) =>
            \A i \in 1..Len(args) :
                (/\ parseOperators(<<args[i]>>).err = NoErr
                 /\ \E k \in 1..Len(args[i]) : args[i][k] = "d")
                => (rng > 0 /\ \E k \in 1..Len(out) : out[k].kind = "term")

\* the call of this step ended in an error
FailedStep ==
    \/ /\ cmd \in {"Dice.Roll", "RollString", "Roll"}
       /\ pc = "start" /\ pc' \in {"done", "exit"}
       /\ ret'.err # NoErr
    \/ /\ cmd = "handleRolls"
       /\ Len(out') = Len(out) + 1
       /\ out'[Len(out')].err # NoErr

\* C10: a call that ends in an error has made no draw: when RollString,
\* Dice.Roll, Roll on terms, or Roll on "age" fails, the random source is
\* as it was before the call.
FailsBeforeDrawing == [][FailedStep => rng' = rng]_vars

\* Roll has ended on an invalid term that follows a valid dice term
FailsBeforeDrawingWitness ==
    /\ cmd = "Roll" /\ pc = "exit" /\ ret.err # NoErr
    /\ Cardinality(TermStarts(Join(args))) >= 2
    /\ toRollInfo(TermText(Join(args), 1)).err = NoErr
    /\ IsDiceText(TermText(Join(args), 1))
    /\ rng = 0

\* a sign and then one or more digits, or nothing
IsModifierText(t) ==
    t = <<>> \/ (Len(t) >= 2 /\ t[1] \in Signs /\ AllDigits(Tail(t)))

\* The ways to cut s into [count] d sides [suffix [count]] [modifier]: the
\* count is s[1..a], the sides s[a+2..b], the suffix s[b+1..c], its count
\* s[c+1..e] and the modifier the rest.
ShapeCuts(s) ==
    LET n == Len(s)
        as == {a \in 0..(n - 1) : AllDigits(SubSeq(s, 1, a)) /\ s[a + 1] = "d"}
        bs(a) == {b \in (a + 2)..n : AllDigits(SubSeq(s, a + 2, b))}
        cs(b) == {c \in {b, b + 2} :
                    c = b \/ (c <= n /\ SubSeq(s, b + 1, c) \in
                        {<<"d", "l">>, <<"d", "h">>, <<"k", "h">>, <<"k", "l">>})}
        es(b, c) == {x \in c..n :
                        /\ AllDigits(SubSeq(s, c + 1, x))
                        /\ c = b => x = c
                        /\ IsModifierText(SubSeq(s, x + 1, n))}
    IN  UNION {UNION {UNION {{<<a, b, c, x>> : x \in es(b, c)} : c \in cs(b)}
                        : b \in bs(a)} : a \in as}

\* what C12 says the Dice of a string of the shape is
ShapeDice(s, cut) ==
    LET a == cut[1]
        b == cut[2]
        c == cut[3]
        x == cut[4]
        suffix == SubSeq(s, b + 1, c)
        mod == SubSeq(s, x + 1, Len(s))
    IN  [NumDice |-> IF a = 0 THEN 1 ELSE DecimalValue(SubSeq(s, 1, a)),
         Sides |-> DecimalValue(SubSeq(s, a + 2, b)),
         Modifier |-> IF mod = <<>> THEN 0
                      ELSE IF mod[1] = "-" THEN 0 - DecimalValue(Tail(mod))
                      ELSE DecimalValue(Tail(mod)),
         RollMod |-> IF c = b THEN ModNone
                     ELSE IF suffix[1] = "d"
                     THEN (IF suffix[2] = "l" THEN ModDropLowest ELSE ModDropHighest)
                     ELSE (IF suffix[2] = "l" THEN ModKeepLowest ELSE ModKeepHighest),
         DropKeep |-> IF c = b THEN 0
                      ELSE IF x = c THEN 1
                      ELSE DecimalValue(SubSeq(s, c + 1, x))]

Str2d6p1d4 == <<"2", "d", "6", "+", "1", "d", "4">>
Str4d6dl == <<"4", "d", "6", "d", "l">>

\* C12: Parse takes a string exactly when, lower-cased and trimmed, it can be
\* cut into [count] d sides [dl|dh|kh|kl [count]] [+/-modifier], and refuses
\* every other string, "2d6+1d4" among them; the Dice it returns has the
\* leading count or 1 as NumDice, the sides as Sides, the rule the suffix
\* names or none as RollMod, the suffix count as DropKeep (1 with a suffix
\* that has no count, 0 with no suffix) and the signed trailing value or 0
\* as Modifier.
ParseShape ==
    (cmd = "Parse" /\ Ended) =>
        LET s == TrimSpace(ToLower(args[1]))
        IN  /\ ret.err = NoErr <=> ShapeCuts(s) # {}
            /\ \A cut \in ShapeCuts(s) : ret.dice = ShapeDice(s, cut)
            /\ args[1] = Str2d6p1d4 => ret.err # NoErr

\* "4d6dl": a suffix with no count, and the count 1 in its place
ParseShapeWitness ==
    /\ cmd = "Parse" /\ Ended /\ args[1] = Str4d6dl
    /\ ret.err = NoErr
    /\ ret.dice = [NumDice |-> 4, Sides |-> 6, Modifier |-> 0,
                   RollMod |-> ModDropLowest, DropKeep |-> 1]

\* C13: the Rolls of a Result of Dice.Roll are the NumDice draws in the
\* order drawn, each from 1 to Sides, and a drop/keep rule that acts leaves
\* them as they were drawn: not sorted, not cut.
RollsAsDrawn ==
    /\ (cmd = "Dice.Roll" /\ Ended /\ ret.err = NoErr) =>
            /\ ret.result.Rolls = rolls
            /\ Len(ret.result.Rolls) = dice.NumDice /\ rng = dice.NumDice
            /\ \A i \in 1..Len(ret.result.Rolls) :
                    1 <= ret.result.Rolls[i] /\ ret.result.Rolls[i] <= dice.Sides
    /\ (cmd = "RollString" /\ Ended /\ ret.err = NoErr) =>
            /\ Len(ret.result.Rolls) = ret.result.NumDice /\ rng = ret.result.NumDice
            /\ \A i \in 1..Len(ret.result.Rolls) :
                    1 <= ret.result.Rolls[i] /\ ret.result.Rolls[i] <= ret.result.Sides

\* three draws in descending order under a rule that drops the lowest
RollsAsDrawnWitness ==
    /\ cmd = "Dice.Roll" /\ Ended /\ ret.err = NoErr
    /\ dice.RollMod = ModDropLowest /\ dice.DropKeep = 1
    /\ Len(rolls) = 3 /\ rolls[1] > rolls[2] /\ rolls[2] > rolls[3]
    /\ ret.result.Rolls = rolls
    /\ ret.result.Kept = <<rolls[2], rolls[1]>> /\ ret.result.Dropped = <<rolls[3]>>

\* what C14 says the k-th term adds to the total, shown being its draws
TermAmount(t, shown) ==
    LET v == IF IsFlatText(t) THEN DecimalValue(Body(t)) ELSE Sum(shown)
    IN  IF t[1] = "-" THEN 0 - v ELSE v

\* C14: normGen has no drop/keep step, and its total is the sum over the
\* terms, in order, of +v for an add term and -v for a subtract term, v being
\* the flat value of a flat term, 0 included, or the sum of the Number draws
\* of a dice term, each from 1 to Sides.
NormTotalIsSignedSum ==
    (cmd = "Roll" /\ pc = "done" /\ args[1] # StrAge) =>
        LET s == Join(args)
            n == Cardinality(TermStarts(s))
            drawsOf(k) == IF IsFlatText(TermText(s, k)) THEN <<>> ELSE out[k].shown
        IN  /\ Len(out) = n + 1
            /\ \A k \in 1..n :
                    /\ out[k].kind = "term"
                    /\ IsDiceText(TermText(s, k)) =>
                            /\ Len(out[k].shown) = CountOf(TermText(s, k))
                            /\ \A i \in 1..Len(out[k].shown) :
                                    /\ 1 <= out[k].shown[i]
                                    /\ out[k].shown[i] <= SidesOf(TermText(s, k))
            /\ out[n + 1].kind = "total"
            /\ out[n + 1].total =
                    Sum([k \in 1..n |-> TermAmount(TermText(s, k), drawsOf(k))])
            /\ rng = Sum([k \in 1..n |-> Len(drawsOf(k))])

\* a dice term taken away from a flat one, and a flat 0 after them
NormTotalIsSignedSumWitness ==
    /\ cmd = "Roll" /\ pc = "done" /\ args[1] # StrAge
    /\ \E k \in 1..(Len(out) - 1) :
            /\ IsDiceText(TermText(Join(args), k))
            /\ TermText(Join(args), k)[1] = "-"
            /\ out[Len(out)].total < 0
    /\ \E k \in 1..(Len(out) - 1) :
            /\ IsFlatText(TermText(Join(args), k))
            /\ DecimalValue(Body(TermText(Join(args), k))) = 0

---------------------------------------------------------------------------
(* The constructors RollAdvantage, RollDisadvantage and RollAbilityScore *)

\* the modifiers of the tests of the constructors and of the spec's scenario
PresetModifiers == ((0 - MaxMod)..MaxMod) \cup {5, -5}

InitPresets ==
    /\ \/ /\ cmd \in {"RollAdvantage", "RollDisadvantage"}
          /\ \E m \in PresetModifiers : args = <<m>>
       \/ /\ cmd = "RollAbilityScore"
          /\ args = <<>>
    /\ pc = "start" /\ dice = NoDice
    /\ rolls = <<>> /\ ret = <<>> /\ rng = 0 /\ out = <<>>

RollAdvantageCall ==
    /\ cmd = "RollAdvantage" /\ pc = "start"
    /\ dice' = advantageDice(args[1])
    /\ \E draws \in RollOracle(dice') :
          /\ ret' = RollAdvantage(args[1], draws)
          /\ rolls' = draws
          /\ rng' = rng + ret'.drawn
    /\ pc' = "done"
    /\ UNCHANGED <<cmd, args, out>>

RollDisadvantageCall ==
    /\ cmd = "RollDisadvantage" /\ pc = "start"
    /\ dice' = disadvantageDice(args[1])
    /\ \E draws \in RollOracle(dice') :
          /\ ret' = RollDisadvantage(args[1], draws)
          /\ rolls' = draws
          /\ rng' = rng + ret'.drawn
    /\ pc' = "done"
    /\ UNCHANGED <<cmd, args, out>>

RollAbilityScoreCall ==
    /\ cmd = "RollAbilityScore" /\ pc = "start"
    /\ dice' = abilityScoreDice
    /\ \E draws \in RollOracle(dice') :
          /\ ret' = RollAbilityScore(draws)
          /\ rolls' = draws
          /\ rng' = rng + ret'.drawn
    /\ pc' = "done"
    /\ UNCHANGED <<cmd, args, out>>

NextPresets ==
    \/ RollAdvantageCall
    \/ RollDisadvantageCall
    \/ RollAbilityScoreCall

SpecPresets == InitPresets /\ [][NextPresets]_vars

\* the greater and the lesser of two values
Max2(a, b) == IF a >= b THEN a ELSE b
Min2(a, b) == IF a <= b THEN a ELSE b

\* C11: whatever the draws and the modifier m, RollAdvantage(m) returns 2
\* rolls, 1 kept and 1 dropped, the kept one the greater of the two rolls and
\* Total = kept + m; RollDisadvantage(m) likewise with the lesser of the two;
\* RollAbilityScore returns 4 rolls, 3 kept and 1 dropped, the dropped one a
\* least of the four, Modifier 0 and a Total from 3 to 18.
PresetsShape ==
    /\ (cmd = "RollAdvantage" /\ pc = "done") =>
            /\ ret.err = NoErr /\ ret.result.Rolls = rolls /\ Len(rolls) = 2
            /\ Len(ret.result.Kept) = 1 /\ Len(ret.result.Dropped) = 1
            /\ ret.result.Kept[1] = Max2(rolls[1], rolls[2])
            /\ ret.result.Dropped[1] = Min2(rolls[1], rolls[2])
            /\ ret.result.Kept[1] >= ret.result.Dropped[1]
            /\ ret.result.Total = ret.result.Kept[1] + args[1]
    /\ (cmd = "RollDisadvantage" /\ pc = "done") =>
            /\ ret.err = NoErr /\ ret.result.Rolls = rolls /\ Len(rolls) = 2
            /\ Len(ret.result.Kept) = 1 /\ Len(ret.result.Dropped) = 1
            /\ ret.result.Kept[1] = Min2(rolls[1], rolls[2])
            /\ ret.result.Dropped[1] = Max2(rolls[1], rolls[2])
            /\ ret.result.Kept[1] <= ret.result.Dropped[1]
            /\ ret.result.Total = ret.result.Kept[1] + args[1]
    /\ (cmd = "RollAbilityScore" /\ pc = "done") =>
            /\ ret.err = NoErr /\ ret.result.Rolls = rolls /\ Len(rolls) = 4
            /\ Len(ret.result.Kept) = 3 /\ Len(ret.result.Dropped) = 1
            /\ \A i \in 1..4 : ret.result.Dropped[1] <= rolls[i]
            /\ \E i \in 1..4 : ret.result.Dropped[1] = rolls[i]
            /\ ret.result.Modifier = 0
            /\ ret.result.Total = Sum(rolls) - ret.result.Dropped[1]
            /\ 3 <= ret.result.Total /\ ret.result.Total <= 18

\* advantage with modifier 5: the second roll is the greater and is kept
PresetsShapeWitness ==
    /\ cmd = "RollAdvantage" /\ pc = "done" /\ args = <<5>>
    /\ rolls[1] < rolls[2]
    /\ ret.result.Kept = <<rolls[2]>> /\ ret.result.Dropped = <<rolls[1]>>
    /\ ret.result.Total = rolls[2] + 5

---------------------------------------------------------------------------
(* The age generator and its modifier *)

\* the characters of the enumerated modifier strings
ModifierChars == {"+", "-", "0", "2", "a"}

\* the modifiers of the tests of parseModifier and of the spec's scenario
ModifierScenarios ==
    { <<"0">>, <<"+", "5">>, <<"-", "3">>, <<"7">>, <<>>, <<"+">>,
      <<"+", "a", "b", "c">>, <<"+", "2">>, <<"-", "-", "5">>, <<"+", "-", "5">> }

ModifierStrings == StringsOver(ModifierChars, MaxLen) \cup ModifierScenarios

InitAge ==
    /\ \/ /\ cmd = "parseModifier"
          /\ args \in {<<s>> : s \in ModifierStrings}
       \/ /\ cmd = "ageGen"
          /\ args \in {<<>>, <<StrAge>>} \cup
                 {<<StrAge, s>> : s \in StringsOver(ModifierChars, MaxLen - 2)
                                         \cup ModifierScenarios}
    /\ pc = "start" /\ dice = NoDice
    /\ rolls = <<>> /\ ret = <<>> /\ rng = 0 /\ out = <<>>

ParseModifierCall ==
    /\ cmd = "parseModifier" /\ pc = "start"
    /\ ret' = parseModifier(args[1])
    /\ pc' = "done"
    /\ UNCHANGED <<cmd, args, dice, rolls, rng, out>>

\* ageGen; rolls is what it drew from the random source, in order
AgeGenCall ==
    /\ cmd = "ageGen" /\ pc = "start"
    /\ \E draws \in AgeDraws :
          LET r == ageGen(args, draws)
          IN  /\ ret' = [err |-> r.err]
              /\ out' = out \o r.lines
              /\ rolls' = Upto(draws, r.drawn)
              /\ rng' = rng + r.drawn
    /\ pc' = "done"
    /\ UNCHANGED <<cmd, args, dice>>

NextAge ==
    \/ ParseModifierCall
    \/ AgeGenCall

SpecAge == InitAge /\ [][NextAge]_vars

\* one sign at most and then one or more decimal digits
IsSignedNumber(t) == IsNumber(Body(t))

\* the decimal value of such a string
SignedValue(t) ==
    IF t[1] = "-" THEN 0 - DecimalValue(Body(t)) ELSE DecimalValue(Body(t))

Rolls446 == <<4, 4, 6>>
StrPlus2 == <<"+", "2">>

\* C15: ageGen draws three six-sided values d1, d2, d3 in this order;
\* stunt points are flagged exactly when two of them are equal, the count of
\* stunt points is d3, the drama flag is up exactly when d3 = 6, and the
\* total is d1 + d2 + d3 plus the signed modifier, 0 with no second
\* argument; the draws (4, 4, 6) with "+2" give stunt points, the count 6,
\* the drama flag and the total 16.
AgeReportShape ==
    (cmd = "ageGen" /\ pc = "done" /\ ret.err = NoErr) =>
        LET rep == out[1]
            mod == parseModifier(args[2])
        IN  /\ Len(out) = 1 /\ rng = 3 /\ Len(rolls) = 3
            /\ \A i \in 1..3 : 1 <= rolls[i] /\ rolls[i] <= 6
            /\ rep.dice = rolls
            /\ rep.stuntPoints <=> Cardinality({rolls[1], rolls[2], rolls[3]}) < 3
            /\ rep.stunt = rolls[3]
            /\ rep.drama <=> rolls[3] = 6
            /\ Len(args) < 2 => rep.total = rolls[1] + rolls[2] + rolls[3]
            /\ (Len(args) >= 2 /\ IsSignedNumber(args[2])) =>
                    rep.total = rolls[1] + rolls[2] + rolls[3] + SignedValue(args[2])
            /\ Len(args) >= 2 =>
                    rep.total = rolls[1] + rolls[2] + rolls[3]
                                    + (IF mod.negative THEN 0 - mod.val ELSE mod.val)
            /\ (rolls = Rolls446 /\ Len(args) >= 2 /\ args[2] = StrPlus2) =>
                    (rep.stuntPoints /\ rep.stunt = 6 /\ rep.drama /\ rep.total = 16)

\* the scenario: (4, 4, 6) with "+2"
AgeReportShapeWitness ==
    /\ cmd = "ageGen" /\ pc = "done" /\ ret.err = NoErr
    /\ rolls = Rolls446 /\ Len(args) = 2 /\ args[2] = StrPlus2
    /\ out[1].stuntPoints /\ out[1].drama /\ out[1].total = 16

\* C16: parseModifier gives (0, false) for the empty string; for one sign at
\* most and then decimal digits it gives the value of the digits, never
\* negative, and negative exactly when the sign is '-'; for a bare sign and
\* for every remainder that is not a number it gives an error; and the
\* modifier ageGen applies is the decimal value of the string.
ModifierMagnitude ==
    /\ (cmd = "parseModifier" /\ pc = "done") =>
            /\ args[1] = <<>> =>
                    (ret.err = NoErr /\ ret.val = 0 /\ ~ret.negative)
            /\ IsSignedNumber(args[1]) =>
                    /\ ret.err = NoErr
                    /\ ret.val = DecimalValue(Body(args[1]))
                    /\ ret.negative <=> args[1][1] = "-"
            /\ (args[1] # <<>> /\ ~IsSignedNumber(args[1])) => ret.err # NoErr
            /\ ret.err = NoErr => ret.val >= 0
    /\ (cmd = "ageGen" /\ pc = "done" /\ ret.err = NoErr /\ Len(args) >= 2) =>
            /\ args[2] = <<>> \/ IsSignedNumber(args[2])
            /\ args[2] # <<>> => out[1].total = Sum(rolls) + SignedValue(args[2])

====
